---- MODULE Spec2Model ----
(***************************************************************************)
(* Chunked-document vector index of llm-researchpaper-analyzer.            *)
(*                                                                         *)
(* Two state machines live in this module:                                 *)
(*   - SpecChunk: utils/chunking.py chunk_text, run statement by statement *)
(*     on character-level texts;                                           *)
(*   - Spec / SpecConc: the ingestion pipeline of app.py over PaperDB      *)
(*     (db_helpers.py) and VectorStore (embedding_index.py), with process  *)
(*     kills and restarts, for one session and for two sessions sharing    *)
(*     the cached PaperDB;                                                 *)
(*   - SpecBatch: the pipeline for one session that ingests a text of more *)
(*     than one embedding batch.                                           *)
(***************************************************************************)
EXTENDS Integers, Sequences, FiniteSets, TLC

(***************************************************************************)
(* Bounds of the model.                                                    *)
(***************************************************************************)
\* longest text, in characters, handed to chunk_text in SpecChunk
MaxTextLen == 7
\* largest max_words handed to chunk_text in SpecChunk
MaxMaxWords == 2
\* largest overlap_words handed to chunk_text in SpecChunk
MaxOverlap == 2
\* loop iterations of chunk_text after which a run is no longer followed
MaxIter == 6
\* full texts a user can upload: text t has 250 * (t - 1) words
NumTexts == 3
\* ingestion requests followed in one behaviour
MaxSubmits == 2
\* process kills followed in one behaviour
MaxKills == 1
\* searches followed in one behaviour
MaxSearches == 1
\* largest top_k handed to semantic_search
MaxTopK == 1
\* the long text of SpecBatch: its 22000 words give 65 chunks, one more than
\* a batch of add_embeddings
LongText == 89

\* app.py line 107: chunk_text(full_text, max_words=400, overlap_words=60)
PipelineMaxWords == 400
PipelineOverlap == 60
\* embedding_index.py line 42: batch_size=64
BatchSize == 64
\* db_helpers.py line 73: semantic_search(query, top_k=5)
DefaultTopK == 5

\* Python's None where a row (a tuple) is expected, a missing file, and
\* None where a row id is expected (row ids start at 1)
NoRow == <<>>
NoFile == <<>>
NoId == 0

Min(a, b) == IF a <= b THEN a ELSE b
Max(a, b) == IF a >= b THEN a ELSE b

(***************************************************************************)
(* Python string and list primitives used by chunk_text.  A string is a    *)
(* sequence of one-character strings; " " stands for any whitespace.       *)
(***************************************************************************)
Alphabet == {"a", "b", " "}

IsSpace(c) == c = " "

\* str.split(): maximal runs of non-whitespace characters, in order
RECURSIVE SplitFrom(_, _, _)
SplitFrom(s, i, cur) ==
    IF i > Len(s)
    THEN IF cur = <<>> THEN <<>> ELSE <<cur>>
    ELSE IF IsSpace(s[i])
         THEN (IF cur = <<>> THEN <<>> ELSE <<cur>>) \o SplitFrom(s, i + 1, <<>>)
         ELSE SplitFrom(s, i + 1, Append(cur, s[i]))

Split(s) == SplitFrom(s, 1, <<>>)

\* " ".join(ws)
RECURSIVE Join(_)
Join(ws) ==
    IF ws = <<>> THEN <<>>
    ELSE IF Len(ws) = 1 THEN Head(ws)
    ELSE Head(ws) \o <<" ">> \o Join(Tail(ws))

\* Python index normalisation of list[a:b] for a list of length n
PyIndex(a, n) == IF a < 0 THEN Max(a + n, 0) ELSE Min(a, n)

\* list[a:b] with Python's 0-based, end-exclusive, clamped semantics
PySlice(ws, a, b) ==
    LET lo == PyIndex(a, Len(ws))
        hi == PyIndex(b, Len(ws))
    IN  IF lo >= hi THEN <<>> ELSE SubSeq(ws, lo + 1, hi)

\* a mutant of LoopEnd: the window is one word short
LoopEndShort(st, mw, n) == Min(st + mw - 1, n)

\* chunking.py line 15: end = min(start + max_words, len(words))
LoopEnd(st, mw, n) == Min(st + mw, n)

\* a mutant of NextStart: the overlap is not stepped back
NextStartNoOverlap(end, ov, n) == end

\* chunking.py lines 20-22: the first assignment is overwritten by the second
NextStart(end, ov, n) ==
    LET first == Max(end - ov, end) - (IF end = n THEN 0 ELSE ov)
    IN  end - ov

(***************************************************************************)
(* State.                                                                  *)
(***************************************************************************)
VARIABLES
    \* --- chunk_text (utils/chunking.py): arguments, locals, position
    text, max_words, overlap_words, words, chunks, start, cpc,
    \* --- durable state: papers.db (three tables) and the faiss.index file
    papers, chunks_tbl, faiss_mapping, index_file,
    \* --- process state: the cached PaperDB / VectorStore of app.py
    proc, index, db_pending, vs_pending, lock, cur_row, lastrowid,
    \* --- per session: position in the pipeline_form handler and its locals
    pc, full_text, paper_id, sess_chunks, chunk_ids, all_embs, start_pos, bind_i,
    \* --- per session: the last semantic_search call and what it returned
    results,
    \* --- how many ingestion requests, process kills and searches are still
    \* followed
    submits_left, kills_left, searches_left

cvars == <<text, max_words, overlap_words, words, chunks, start, cpc>>
dvars == <<papers, chunks_tbl, faiss_mapping, index_file>>
mvars == <<proc, index, db_pending, vs_pending, lock, cur_row, lastrowid>>
svars == <<pc, full_text, paper_id, sess_chunks, chunk_ids, all_embs, start_pos,
          bind_i>>
bvars == <<submits_left, kills_left, searches_left>>
pvars == <<dvars, mvars, svars, results, bvars>>
vars == <<cvars, pvars>>

(***************************************************************************)
(* chunk_text(text, max_words, overlap_words), statement by statement.     *)
(***************************************************************************)
Texts == UNION {[1..n -> Alphabet] : n \in 0..MaxTextLen}

\* the text of the scenario chunk("a b c d e", 2, 1)
ScenarioText == <<"a", " ", "b", " ", "c", " ", "d", " ", "e">>

OverlapInputs == (0 - 1)..MaxOverlap

\* chunking.py lines 7-13: the two early returns, then the loop is entered
ChunkEnter ==
    /\ cpc = "call"
    /\ IF text = <<>>
       THEN /\ chunks' = <<>>
            /\ cpc' = "done"
            /\ UNCHANGED <<words, start>>
       ELSE /\ words' = Split(text)
            /\ IF Len(words') <= max_words
               THEN /\ chunks' = <<Join(words')>>
                    /\ cpc' = "done"
                    /\ UNCHANGED start
               ELSE /\ chunks' = <<>>
                    /\ start' = 0
                    /\ cpc' = "loop"
    /\ UNCHANGED <<text, max_words, overlap_words, pvars>>

\* chunking.py lines 14-22: one iteration of the while loop
ChunkIter ==
    /\ cpc = "loop"
    /\ start < Len(words)
    /\ Len(chunks) < MaxIter
    /\ LET end == LoopEnd(start, max_words, Len(words))
       IN  /\ chunks' = Append(chunks, Join(PySlice(words, start, end)))
           /\ IF end = Len(words)
              THEN /\ cpc' = "done"
                   /\ UNCHANGED start
              ELSE /\ start' = NextStart(end, overlap_words, Len(words))
                   /\ UNCHANGED cpc
    /\ UNCHANGED <<text, max_words, overlap_words, words, pvars>>

\* chunking.py lines 14, 23: the while condition fails and chunks is returned
ChunkLoopExit ==
    /\ cpc = "loop"
    /\ ~(start < Len(words))
    /\ cpc' = "done"
    /\ UNCHANGED <<text, max_words, overlap_words, words, chunks, start, pvars>>

NextChunk == ChunkEnter \/ ChunkIter \/ ChunkLoopExit

(***************************************************************************)
(* The ingestion pipeline: data.                                           *)
(*                                                                         *)
(* A full text is named by a number t and has WordCount(t) words; the      *)
(* string " ".join(words[from:to]) of text t is the record                 *)
(* [text |-> t, from |-> from, to |-> to].  Texts share no chunk string.   *)
(***************************************************************************)
Sessions == 1..2
TextIds == 1..NumTexts
WordCount(t) == 250 * (t - 1)

\* db_helpers.py lines 32-33: sha256 of the full text (taken collision-free)
compute_hash(t) == [sha256 |-> t]

\* chunk_text on a text of n words: the windows of the while loop from st on
RECURSIVE ChunkWindows(_, _, _, _)
ChunkWindows(n, mw, ov, st) ==
    IF ~(st < n) THEN <<>>
    ELSE LET end == LoopEnd(st, mw, n)
         IN  <<[from |-> st, to |-> end]>> \o
             (IF end = n THEN <<>>
              ELSE ChunkWindows(n, mw, ov, NextStart(end, ov, n)))

\* utils/chunking.py chunk_text, as a function of the text (0 <= ov < mw)
chunk_text(t, mw, ov) ==
    LET n == WordCount(t)
        ws == IF n <= mw THEN <<[from |-> 0, to |-> n]>>
              ELSE ChunkWindows(n, mw, ov, 0)
    IN  IF n = 0 THEN <<>>
        ELSE [k \in 1..Len(ws) |-> [text |-> t, from |-> ws[k].from, to |-> ws[k].to]]

\* SentenceTransformer.encode + normalize_L2 of one text: a black box that
\* is a function of the text
Encode(txt) == [emb |-> txt]

\* the rows a connection sees: the committed ones, then its uncommitted ones
PapersView == papers \o db_pending.papers
ChunksView == chunks_tbl \o db_pending.chunks
MapView == [p \in (DOMAIN faiss_mapping) \cup (DOMAIN vs_pending) |->
               IF p \in DOMAIN vs_pending THEN vs_pending[p] ELSE faiss_mapping[p]]

\* the empty position -> chunk id table
EmptyMap == [p \in {} |-> 0]
NoPending == [papers |-> <<>>, chunks |-> <<>>]

\* a mutant of SelectPaperByHash: the lookup never finds a row
SelectPaperNever(h) == NoRow

\* db_helpers.py line 48: SELECT id FROM papers WHERE file_hash=?
SelectPaperByHash(h) ==
    IF \E i \in 1..Len(PapersView) : PapersView[i].file_hash = h
    THEN <<CHOOSE i \in 1..Len(PapersView) : PapersView[i].file_hash = h>>
    ELSE NoRow

\* db_helpers.py line 14: file_hash TEXT UNIQUE
HashTaken(h) == \E i \in 1..Len(PapersView) : PapersView[i].file_hash = h

\* sqlite3 Connection.commit on PaperDB.conn: the pending rows become durable
DbCommitted == [papers |-> PapersView, chunks |-> ChunksView]

NoSearch == [top_k |-> 0, I |-> <<>>, hits |-> <<>>]

InitDurable ==
    /\ papers = <<>>
    /\ chunks_tbl = <<>>
    /\ faiss_mapping = EmptyMap
    /\ index_file = NoFile

InitProcess ==
    /\ proc = "down"
    /\ index = <<>>
    /\ db_pending = NoPending
    /\ vs_pending = EmptyMap
    /\ lock = "none"
    /\ cur_row = NoRow
    /\ lastrowid = 0

InitLocals ==
    /\ full_text = [s \in Sessions |-> 0]
    /\ paper_id = [s \in Sessions |-> 0]
    /\ sess_chunks = [s \in Sessions |-> <<>>]
    /\ chunk_ids = [s \in Sessions |-> <<>>]
    /\ all_embs = [s \in Sessions |-> <<>>]
    /\ start_pos = [s \in Sessions |-> 0]
    /\ bind_i = [s \in Sessions |-> 0]
    /\ results = [s \in Sessions |-> NoSearch]

\* chunk_text is not running
InitChunkOff ==
    /\ text = <<>>
    /\ max_words = PipelineMaxWords
    /\ overlap_words = PipelineOverlap
    /\ words = <<>>
    /\ chunks = <<>>
    /\ start = 0
    /\ cpc = "off"

\* one browser session
Init ==
    /\ InitChunkOff
    /\ InitDurable
    /\ InitProcess
    /\ InitLocals
    /\ pc = [s \in Sessions |-> IF s = 1 THEN "idle" ELSE "off"]
    /\ submits_left = MaxSubmits
    /\ kills_left = MaxKills
    /\ searches_left = MaxSearches

\* chunk_text called on a bounded text; the pipeline is not running
InitChunk ==
    /\ text \in Texts \cup {ScenarioText}
    /\ max_words \in 1..MaxMaxWords
    /\ overlap_words \in OverlapInputs
    /\ words = <<>>
    /\ chunks = <<>>
    /\ start = 0
    /\ cpc = "call"
    /\ InitDurable
    /\ InitProcess
    /\ InitLocals
    /\ pc = [s \in Sessions |-> "off"]
    /\ submits_left = 0
    /\ kills_left = 0
    /\ searches_left = 0

SpecChunk == InitChunk /\ [][NextChunk]_vars

(***************************************************************************)
(* Claims about chunk_text, checked under SpecChunk.                       *)
(***************************************************************************)
\* the caller contract of chunk_text
ChunkContract == 0 <= overlap_words /\ overlap_words < max_words

\* the words of window k of the windowing rule, joined as a chunk string
WindowChunk(ws, k) ==
    LET lo == k * (max_words - overlap_words)
        hi == Min(lo + max_words, Len(ws))
    IN  Join(SubSeq(ws, lo + 1, hi))

WindowEnd(ws, k) == Min(k * (max_words - overlap_words) + max_words, Len(ws))

\* C6 - chunker windowing rule: a returned call with 0 <= overlap_words <
\* max_words on a text of n words gives one chunk of all n words when
\* 1 <= n <= max_words, and otherwise exactly the windows
\* [k*(max_words-overlap_words), min(k*(max_words-overlap_words)+max_words, n))
\* for k = 0, 1, ... up to and including the first window that ends at n;
\* chunk("a b c d e", 2, 1) is ["a b", "b c", "c d", "d e"].
C6_WindowingRule ==
    (cpc = "done" /\ ChunkContract) =>
        LET ws == Split(text)
            n == Len(ws)
            last == Len(chunks) - 1
        IN  /\ (1 <= n /\ n <= max_words) => chunks = <<Join(ws)>>
            /\ n > max_words =>
                 /\ Len(chunks) >= 1
                 /\ \A k \in 0..last : chunks[k + 1] = WindowChunk(ws, k)
                 /\ \A k \in 0..last : (WindowEnd(ws, k) = n) <=> (k = last)
            /\ (text = ScenarioText /\ max_words = 2 /\ overlap_words = 1) =>
                 chunks = << <<"a", " ", "b">>, <<"b", " ", "c">>,
                             <<"c", " ", "d">>, <<"d", " ", "e">> >>

\* C6 witness: the scenario call has returned its four windows
C6_Witness ==
    /\ cpc = "done"
    /\ text = ScenarioText /\ max_words = 2 /\ overlap_words = 1
    /\ Len(chunks) = 4

\* the last Len(ws) - k words of ws
DropFirst(ws, k) == IF k >= Len(ws) THEN <<>> ELSE SubSeq(ws, k + 1, Len(ws))

\* the first chunk's words, then every later chunk's words without its
\* first ov words
RECURSIVE Reconstruct(_, _, _)
Reconstruct(cs, ov, k) ==
    IF k > Len(cs) THEN <<>>
    ELSE (IF k = 1 THEN Split(cs[k]) ELSE DropFirst(Split(cs[k]), ov))
         \o Reconstruct(cs, ov, k + 1)

\* C7 - chunk coverage: for a returned call with 0 <= overlap_words <
\* max_words, the first chunk's words followed by each later chunk's words
\* without its first overlap_words words are exactly the words of the text.
C7_ChunkCoverage ==
    (cpc = "done" /\ ChunkContract) =>
        Reconstruct(chunks, overlap_words, 1) = Split(text)

\* C7 witness: a returned call with at least three overlapping windows
C7_Witness ==
    /\ cpc = "done" /\ ChunkContract
    /\ overlap_words >= 1
    /\ Len(chunks) >= 3
    /\ text # ScenarioText

\* C8 - empty input: a returned call on the empty string or on a text of
\* whitespace only has returned zero chunks.
C8_EmptyInput ==
    (cpc = "done" /\ \A i \in 1..Len(text) : IsSpace(text[i])) => chunks = <<>>

\* C9 - chunker termination: chunk_text never loops without advancing the
\* window (with overlap_words >= max_words it fails before it would): every
\* iteration that stays in the loop moves start forward.
C9_FailsFast ==
    [][(cpc = "loop" /\ cpc' = "loop") => start' > start]_vars

(***************************************************************************)
(* The ingestion pipeline: process start and kill.                         *)
(***************************************************************************)
\* a mutant of LoadOrCreateIndex: a new empty index is created at every
\* start
CreateIndexAlways == <<>>

\* embedding_index.py lines 34-40: read the snapshot, or create an empty
\* index and write it
LoadOrCreateIndex == IF index_file # NoFile THEN index_file[1] ELSE <<>>

\* app.py lines 32-39: PaperDB(...) is constructed and cached; the CREATE
\* TABLE IF NOT EXISTS scripts leave existing rows alone
Start ==
    /\ proc = "down"
    /\ proc' = "started"
    /\ index' = LoadOrCreateIndex
    /\ index_file' = <<LoadOrCreateIndex>>
    /\ UNCHANGED <<papers, chunks_tbl, faiss_mapping>>
    /\ UNCHANGED <<db_pending, vs_pending, lock, cur_row, lastrowid>>
    /\ UNCHANGED <<svars, results, bvars, cvars>>

\* the process is killed: memory, open transactions and sessions are lost,
\* the committed tables and the snapshot file stay
Kill ==
    /\ proc # "down"
    /\ kills_left > 0
    /\ kills_left' = kills_left - 1
    /\ proc' = "down"
    /\ index' = <<>>
    /\ db_pending' = NoPending
    /\ vs_pending' = EmptyMap
    /\ lock' = "none"
    /\ cur_row' = NoRow
    /\ lastrowid' = 0
    /\ pc' = [s \in Sessions |-> IF pc[s] = "off" THEN "off" ELSE "idle"]
    /\ full_text' = [s \in Sessions |-> 0]
    /\ paper_id' = [s \in Sessions |-> 0]
    /\ sess_chunks' = [s \in Sessions |-> <<>>]
    /\ chunk_ids' = [s \in Sessions |-> <<>>]
    /\ all_embs' = [s \in Sessions |-> <<>>]
    /\ start_pos' = [s \in Sessions |-> 0]
    /\ bind_i' = [s \in Sessions |-> 0]
    /\ results' = [s \in Sessions |-> NoSearch]
    /\ UNCHANGED <<dvars, submits_left, searches_left, cvars>>

(***************************************************************************)
(* The pipeline_form handler of app.py, one action per statement that      *)
(* touches shared or durable state.  An exception ends the handler in      *)
(* "failed"; transactions it left open stay open.                          *)
(***************************************************************************)
Goto(s, l) == pc' = [pc EXCEPT ![s] = l]

\* app.py lines 90-92: "Start full pipeline" is submitted with a full text
Submit(s, t) ==
    /\ proc # "down"
    /\ pc[s] = "idle"
    /\ submits_left > 0
    /\ submits_left' = submits_left - 1
    /\ proc' = "serving"
    /\ full_text' = [full_text EXCEPT ![s] = t]
    /\ Goto(s, "ip_select")
    /\ UNCHANGED <<dvars, index, db_pending, vs_pending, lock, cur_row, lastrowid>>
    /\ UNCHANGED <<paper_id, sess_chunks, chunk_ids, all_embs, start_pos, bind_i>>
    /\ UNCHANGED <<results, kills_left, searches_left, cvars>>

\* db_helpers.py lines 47-48: file_hash is computed and the SELECT executed
\* on the shared cursor
InsertPaperSelect(s) ==
    /\ pc[s] = "ip_select"
    /\ cur_row' = SelectPaperByHash(compute_hash(full_text[s]))
    /\ Goto(s, "ip_fetch")
    /\ UNCHANGED <<dvars, proc, index, db_pending, vs_pending, lock, lastrowid>>
    /\ UNCHANGED <<full_text, paper_id, sess_chunks, chunk_ids, all_embs, start_pos, bind_i>>
    /\ UNCHANGED <<results, bvars, cvars>>

\* db_helpers.py lines 49-51 and app.py lines 94-100: fetchone on the shared
\* cursor; a row means (row[0], True) and the stored results are shown
InsertPaperFetch(s) ==
    /\ pc[s] = "ip_fetch"
    /\ cur_row' = NoRow
    /\ IF cur_row # NoRow
       THEN /\ paper_id' = [paper_id EXCEPT ![s] = cur_row[1]]
            /\ Goto(s, "skipped")
       ELSE /\ Goto(s, "ip_insert")
            /\ UNCHANGED paper_id
    /\ UNCHANGED <<dvars, proc, index, db_pending, vs_pending, lock, lastrowid>>
    /\ UNCHANGED <<full_text, sess_chunks, chunk_ids, all_embs, start_pos, bind_i>>
    /\ UNCHANGED <<results, bvars, cvars>>

\* db_helpers.py lines 52-55: INSERT INTO papers.  The write needs the
\* database lock (OperationalError when the other connection holds it) and
\* file_hash is UNIQUE (IntegrityError, the transaction stays open)
InsertPaperInsert(s) ==
    /\ pc[s] = "ip_insert"
    /\ IF lock = "vs"
       THEN /\ Goto(s, "failed")
            /\ UNCHANGED <<db_pending, lock, cur_row, lastrowid>>
       ELSE IF HashTaken(compute_hash(full_text[s]))
       THEN /\ Goto(s, "failed")
            /\ lock' = "db"
            /\ cur_row' = NoRow
            /\ UNCHANGED <<db_pending, lastrowid>>
       ELSE /\ db_pending' = [db_pending EXCEPT !.papers =
                    Append(@, [file_hash |-> compute_hash(full_text[s]),
                               summary |-> NoRow])]
            /\ lastrowid' = Len(PapersView) + 1
            /\ lock' = "db"
            /\ cur_row' = NoRow
            /\ Goto(s, "ip_commit")
    /\ UNCHANGED <<dvars, proc, index, vs_pending>>
    /\ UNCHANGED <<full_text, paper_id, sess_chunks, chunk_ids, all_embs, start_pos, bind_i>>
    /\ UNCHANGED <<results, bvars, cvars>>

\* db_helpers.py lines 56-57: commit, then return (cur.lastrowid, False)
InsertPaperCommit(s) ==
    /\ pc[s] = "ip_commit"
    /\ papers' = DbCommitted.papers
    /\ chunks_tbl' = DbCommitted.chunks
    /\ db_pending' = NoPending
    /\ lock' = IF lock = "db" THEN "none" ELSE lock
    /\ paper_id' = [paper_id EXCEPT ![s] = lastrowid]
    /\ Goto(s, "chunking")
    /\ UNCHANGED <<faiss_mapping, index_file, proc, index, vs_pending, cur_row, lastrowid>>
    /\ UNCHANGED <<full_text, sess_chunks, chunk_ids, all_embs, start_pos, bind_i>>
    /\ UNCHANGED <<results, bvars, cvars>>

\* app.py lines 105-108: chunks = chunk_text(full_text, 400, 60)
Chunking(s) ==
    /\ pc[s] = "chunking"
    /\ sess_chunks' = [sess_chunks EXCEPT ![s] =
            chunk_text(full_text[s], PipelineMaxWords, PipelineOverlap)]
    /\ Goto(s, "insert_chunks")
    /\ UNCHANGED <<dvars, mvars>>
    /\ UNCHANGED <<full_text, paper_id, chunk_ids, all_embs, start_pos, bind_i>>
    /\ UNCHANGED <<results, bvars, cvars>>

\* a mutant of ChunkOrder: every chunk gets ordinal 0
ChunkOrderZero(i) == 0

\* db_helpers.py line 61: enumerate(chunk_texts) numbers the texts from 0
ChunkOrder(i) == i - 1

\* db_helpers.py lines 61-66: one iteration of the loop of insert_chunks:
\* INSERT INTO chunks, then chunk_ids.append(cur.lastrowid)
InsertChunk(s) ==
    /\ pc[s] = "insert_chunks"
    /\ Len(chunk_ids[s]) < Len(sess_chunks[s])
    /\ IF lock = "vs"
       THEN /\ Goto(s, "failed")
            /\ UNCHANGED <<db_pending, lock, cur_row, lastrowid, chunk_ids>>
       ELSE LET i == Len(chunk_ids[s]) + 1
                rowid == Len(ChunksView) + 1
            IN  /\ db_pending' = [db_pending EXCEPT !.chunks =
                        Append(@, [paper_id |-> paper_id[s],
                                   chunk_text |-> sess_chunks[s][i],
                                   chunk_order |-> ChunkOrder(i)])]
                /\ lastrowid' = rowid
                /\ chunk_ids' = [chunk_ids EXCEPT ![s] = Append(@, rowid)]
                /\ lock' = "db"
                /\ cur_row' = NoRow
                /\ UNCHANGED pc
    /\ UNCHANGED <<dvars, proc, index, vs_pending>>
    /\ UNCHANGED <<full_text, paper_id, sess_chunks, all_embs, start_pos, bind_i>>
    /\ UNCHANGED <<results, bvars, cvars>>

\* db_helpers.py lines 67-68: commit and return chunk_ids
InsertChunksCommit(s) ==
    /\ pc[s] = "insert_chunks"
    /\ Len(chunk_ids[s]) = Len(sess_chunks[s])
    /\ papers' = DbCommitted.papers
    /\ chunks_tbl' = DbCommitted.chunks
    /\ db_pending' = NoPending
    /\ lock' = IF lock = "db" THEN "none" ELSE lock
    /\ Goto(s, "embed")
    /\ UNCHANGED <<faiss_mapping, index_file, proc, index, vs_pending, cur_row, lastrowid>>
    /\ UNCHANGED <<full_text, paper_id, sess_chunks, chunk_ids, all_embs, start_pos, bind_i>>
    /\ UNCHANGED <<results, bvars, cvars>>

(***************************************************************************)
(* VectorStore.add_embeddings(texts, chunk_ids), reached through           *)
(* PaperDB.add_chunks_embeddings (db_helpers.py lines 70-71, app.py lines  *)
(* 115-117).  texts and chunk_ids have equal length by construction, so    *)
(* the assert of line 47 always passes.                                    *)
(***************************************************************************)
\* texts[i:i+batch_size] for the k-th batch, k = 0, 1, ...
Batch(texts, k) == PySlice(texts, k * BatchSize, k * BatchSize + BatchSize)

BatchesLeft(s) == Len(all_embs[s]) * BatchSize < Len(sess_chunks[s])

\* a mutant of IndexAfterBatch: every batch is added to the index as soon
\* as it is encoded
IndexAfterBatchAdded(idx, emb) == idx \o emb

\* embedding_index.py line 53: all_embs.append(emb) collects the batch; the
\* index is not touched inside the batch loop
IndexAfterBatch(idx, emb) == idx

\* embedding_index.py lines 49-53: one batch is encoded and normalised
EmbedBatch(s) ==
    /\ pc[s] = "embed"
    /\ BatchesLeft(s)
    /\ LET batch == Batch(sess_chunks[s], Len(all_embs[s]))
           emb == [j \in 1..Len(batch) |-> Encode(batch[j])]
       IN  /\ all_embs' = [all_embs EXCEPT ![s] = Append(@, emb)]
           /\ index' = IndexAfterBatch(index, emb)
    /\ UNCHANGED <<dvars, proc, db_pending, vs_pending, lock, cur_row, lastrowid>>
    /\ UNCHANGED <<pc, full_text, paper_id, sess_chunks, chunk_ids, start_pos, bind_i>>
    /\ UNCHANGED <<results, bvars, cvars>>

\* embedding_index.py line 51: the embedding model raises on a batch
EmbedFail(s) ==
    /\ pc[s] = "embed"
    /\ BatchesLeft(s)
    /\ Goto(s, "failed")
    /\ UNCHANGED <<dvars, mvars>>
    /\ UNCHANGED <<full_text, paper_id, sess_chunks, chunk_ids, all_embs, start_pos, bind_i>>
    /\ UNCHANGED <<results, bvars, cvars>>

\* a mutant of AddEmbeddingsNext: the snapshot is written right after the
\* append, before the map entries are inserted and committed
SnapshotBeforeBind(l) ==
    IF l = "embed" THEN "read_ntotal"
    ELSE IF l = "read_ntotal" THEN "index_add"
    ELSE IF l = "index_add" THEN "write_index"
    ELSE IF l = "write_index" THEN "map_insert"
    ELSE "summarize"

\* embedding_index.py lines 49-67: the statement order of add_embeddings
\* after the batch loop: vstack (54), start_pos (56), index.add (57), the
\* INSERT loop and commit (59-66), write_index (67), then back in app.py
AddEmbeddingsNext(l) ==
    IF l = "embed" THEN "read_ntotal"
    ELSE IF l = "read_ntotal" THEN "index_add"
    ELSE IF l = "index_add" THEN "map_insert"
    ELSE IF l = "map_insert" THEN "write_index"
    ELSE "summarize"

\* np.vstack of a list of arrays: their rows, in order
RECURSIVE Flatten(_)
Flatten(bs) == IF bs = <<>> THEN <<>> ELSE Head(bs) \o Flatten(Tail(bs))

\* a mutant of VstackRaises: an empty list is stacked to an empty array
VstackAcceptsEmpty(bs) == FALSE

\* embedding_index.py line 54: np.vstack raises ValueError ("need at least
\* one array to concatenate") on an empty list
VstackRaises(bs) == bs = <<>>

\* embedding_index.py line 54: np.vstack(all_embs); ValueError on an empty
\* list
Vstack(s) ==
    /\ pc[s] = "embed"
    /\ ~BatchesLeft(s)
    /\ IF VstackRaises(all_embs[s])
       THEN /\ Goto(s, "failed")
            /\ UNCHANGED all_embs
       ELSE /\ all_embs' = [all_embs EXCEPT ![s] = Flatten(@)]
            /\ Goto(s, AddEmbeddingsNext("embed"))
    /\ UNCHANGED <<dvars, mvars>>
    /\ UNCHANGED <<full_text, paper_id, sess_chunks, chunk_ids, start_pos, bind_i>>
    /\ UNCHANGED <<results, bvars, cvars>>

\* embedding_index.py line 56: start_pos = self.index.ntotal
ReadNtotal(s) ==
    /\ pc[s] = "read_ntotal"
    /\ start_pos' = [start_pos EXCEPT ![s] = Len(index)]
    /\ Goto(s, AddEmbeddingsNext("read_ntotal"))
    /\ UNCHANGED <<dvars, mvars>>
    /\ UNCHANGED <<full_text, paper_id, sess_chunks, chunk_ids, all_embs, bind_i>>
    /\ UNCHANGED <<results, bvars, cvars>>

\* a mutant of IndexAppend: the new vectors are put before the stored ones
IndexPrepend(idx, embs) == embs \o idx

\* faiss IndexFlatIP.add: the vectors are appended in input order
IndexAppend(idx, embs) == idx \o embs

\* embedding_index.py line 57: self.index.add(all_embs)
IndexAdd(s) ==
    /\ pc[s] = "index_add"
    /\ index' = IndexAppend(index, all_embs[s])
    /\ bind_i' = [bind_i EXCEPT ![s] = 0]
    /\ Goto(s, AddEmbeddingsNext("index_add"))
    /\ UNCHANGED <<dvars, proc, db_pending, vs_pending, lock, cur_row, lastrowid>>
    /\ UNCHANGED <<full_text, paper_id, sess_chunks, chunk_ids, all_embs, start_pos>>
    /\ UNCHANGED <<results, bvars, cvars>>

\* a mutant of PositionTaken: the table has no key on faiss_idx
PositionFree(pos) == FALSE

\* embedding_index.py line 26: faiss_idx INTEGER PRIMARY KEY; an INSERT of a
\* position that has a row violates the key
PositionTaken(pos) == pos \in DOMAIN MapView

\* embedding_index.py lines 60-65: one iteration of the binding loop:
\* INSERT INTO faiss_mapping (faiss_idx, chunk_id).  The write needs the
\* database lock and faiss_idx is the PRIMARY KEY (IntegrityError, the
\* transaction stays open)
MapInsert(s) ==
    /\ pc[s] = "map_insert"
    /\ bind_i[s] < Len(chunk_ids[s])
    /\ LET pos == start_pos[s] + bind_i[s]
           cid == chunk_ids[s][bind_i[s] + 1]
       IN  IF lock = "db"
           THEN /\ Goto(s, "failed")
                /\ UNCHANGED <<vs_pending, lock, bind_i>>
           ELSE IF PositionTaken(pos)
           THEN /\ Goto(s, "failed")
                /\ lock' = "vs"
                /\ UNCHANGED <<vs_pending, bind_i>>
           ELSE /\ vs_pending' = [p \in (DOMAIN vs_pending) \cup {pos} |->
                                     IF p = pos THEN cid ELSE vs_pending[p]]
                /\ lock' = "vs"
                /\ bind_i' = [bind_i EXCEPT ![s] = @ + 1]
                /\ UNCHANGED pc
    /\ UNCHANGED <<dvars, proc, index, db_pending, cur_row, lastrowid>>
    /\ UNCHANGED <<full_text, paper_id, sess_chunks, chunk_ids, all_embs, start_pos>>
    /\ UNCHANGED <<results, bvars, cvars>>

\* embedding_index.py line 66: self.conn.commit()
MapCommit(s) ==
    /\ pc[s] = "map_insert"
    /\ bind_i[s] = Len(chunk_ids[s])
    /\ faiss_mapping' = MapView
    /\ vs_pending' = EmptyMap
    /\ lock' = IF lock = "vs" THEN "none" ELSE lock
    /\ Goto(s, AddEmbeddingsNext("map_insert"))
    /\ UNCHANGED <<papers, chunks_tbl, index_file, proc, index, db_pending, cur_row, lastrowid>>
    /\ UNCHANGED <<full_text, paper_id, sess_chunks, chunk_ids, all_embs, start_pos, bind_i>>
    /\ UNCHANGED <<results, bvars, cvars>>

\* embedding_index.py line 67: faiss.write_index(self.index, self.index_path)
WriteIndex(s) ==
    /\ pc[s] = "write_index"
    /\ index_file' = <<index>>
    /\ Goto(s, AddEmbeddingsNext("write_index"))
    /\ UNCHANGED <<papers, chunks_tbl, faiss_mapping, mvars>>
    /\ UNCHANGED <<full_text, paper_id, sess_chunks, chunk_ids, all_embs, start_pos, bind_i>>
    /\ UNCHANGED <<results, bvars, cvars>>

\* embedding_index.py line 67: the write raises (disk full, no permission)
\* and the file is left as it was
WriteIndexFail(s) ==
    /\ pc[s] = "write_index"
    /\ Goto(s, "failed")
    /\ UNCHANGED <<dvars, mvars>>
    /\ UNCHANGED <<full_text, paper_id, sess_chunks, chunk_ids, all_embs, start_pos, bind_i>>
    /\ UNCHANGED <<results, bvars, cvars>>

\* the papers rows with the summary of row id set
WithSummary(rows, id, sm) ==
    [i \in 1..Len(rows) |-> IF i = id THEN [rows[i] EXCEPT !.summary = sm] ELSE rows[i]]

\* app.py lines 119-133 and db_helpers.py lines 91-96: the summaries are
\* generated, then UPDATE papers ... WHERE id=? and commit
SaveSummary(s) ==
    /\ pc[s] = "summarize"
    /\ IF lock = "vs"
       THEN /\ Goto(s, "failed")
            /\ UNCHANGED <<papers, chunks_tbl, db_pending, lock>>
       ELSE /\ papers' = WithSummary(PapersView, paper_id[s], <<full_text[s]>>)
            /\ chunks_tbl' = ChunksView
            /\ db_pending' = NoPending
            /\ lock' = "none"
            /\ Goto(s, "done")
    /\ UNCHANGED <<faiss_mapping, index_file, proc, index, vs_pending, cur_row, lastrowid>>
    /\ UNCHANGED <<full_text, paper_id, sess_chunks, chunk_ids, all_embs, start_pos, bind_i>>
    /\ UNCHANGED <<results, bvars, cvars>>

\* app.py lines 140-142, or the script run ends: the handler's locals are
\* gone and the session waits for the next click
Rerun(s) ==
    /\ pc[s] \in {"done", "skipped", "failed", "searched"}
    /\ Goto(s, "idle")
    /\ full_text' = [full_text EXCEPT ![s] = 0]
    /\ paper_id' = [paper_id EXCEPT ![s] = 0]
    /\ sess_chunks' = [sess_chunks EXCEPT ![s] = <<>>]
    /\ chunk_ids' = [chunk_ids EXCEPT ![s] = <<>>]
    /\ all_embs' = [all_embs EXCEPT ![s] = <<>>]
    /\ start_pos' = [start_pos EXCEPT ![s] = 0]
    /\ bind_i' = [bind_i EXCEPT ![s] = 0]
    /\ results' = [results EXCEPT ![s] = NoSearch]
    /\ UNCHANGED <<dvars, mvars, bvars, cvars>>

(***************************************************************************)
(* PaperDB.semantic_search(query, top_k).                                  *)
(***************************************************************************)
\* embedding_index.py lines 69-73: what faiss can return as I[0]: top_k
\* labels, the best min(ntotal, top_k) positions first, each once, in the
\* order the (black box) scores give them, then -1 for the missing ones
RECURSIVE Arrangements(_, _)
Arrangements(S, m) ==
    IF m = 0 THEN {<<>>}
    ELSE UNION {{<<p>> \o a : a \in Arrangements(S \ {p}, m - 1)} : p \in S}

FaissSearch(k) ==
    LET n == Len(index)
        m == Min(n, k)
    IN  {a \o [j \in 1..(k - m) |-> 0 - 1] : a \in Arrangements(0..(n - 1), m)}

\* a mutant of ResolvePosition: the position after the one asked for
ResolveNextPosition(idx) ==
    IF idx < 0 THEN NoId
    ELSE IF (idx + 1) \in DOMAIN MapView THEN MapView[idx + 1] ELSE NoId

\* embedding_index.py lines 79-84: one position of map_index_to_chunk_ids
ResolvePosition(idx) ==
    IF idx < 0 THEN NoId
    ELSE IF idx \in DOMAIN MapView THEN MapView[idx] ELSE NoId

\* embedding_index.py lines 75-85: map_index_to_chunk_ids
map_index_to_chunk_ids(I) == [j \in 1..Len(I) |-> ResolvePosition(I[j])]

\* db_helpers.py lines 77-88: the result row of one (score, cid) pair; the
\* score is named by its rank j in D
HitRows(cid, j) ==
    IF cid = NoId THEN <<>>
    ELSE IF cid \in 1..Len(ChunksView)
         THEN <<[score |-> j, chunk_id |-> cid,
                 paper_id |-> ChunksView[cid].paper_id,
                 chunk_text |-> ChunksView[cid].chunk_text]>>
         ELSE <<>>

\* a mutant of Hits: the loop stops at the first position that has no
\* binding
RECURSIVE HitsUntilAbsent(_, _)
HitsUntilAbsent(cids, j) ==
    IF j > Len(cids) \/ cids[j] = NoId THEN <<>>
    ELSE HitRows(cids[j], j) \o HitsUntilAbsent(cids, j + 1)

\* db_helpers.py lines 76-89: the loop of semantic_search over zip(D, cids)
RECURSIVE Hits(_, _)
Hits(cids, j) ==
    IF j > Len(cids) THEN <<>> ELSE HitRows(cids[j], j) \o Hits(cids, j + 1)

\* db_helpers.py lines 73-89: semantic_search, given the labels I of search
semantic_search(I) == Hits(map_index_to_chunk_ids(I), 1)

\* app.py line 150 and db_helpers.py line 73: the values of top_k
TopKs == (1..MaxTopK) \cup {DefaultTopK}

\* app.py lines 152-166: the Search button; semantic_search is called only
\* on a non-empty index
Search(s, k) ==
    /\ proc # "down"
    /\ pc[s] = "idle"
    /\ searches_left > 0
    /\ searches_left' = searches_left - 1
    /\ proc' = "serving"
    /\ IF Len(index) > 0
       THEN \E I \in FaissSearch(k) :
               results' = [results EXCEPT ![s] =
                   [top_k |-> k, I |-> I, hits |-> semantic_search(I)]]
       ELSE results' = [results EXCEPT ![s] = [top_k |-> k, I |-> <<>>, hits |-> <<>>]]
    /\ Goto(s, "searched")
    /\ UNCHANGED <<dvars, index, db_pending, vs_pending, lock, cur_row, lastrowid>>
    /\ UNCHANGED <<full_text, paper_id, sess_chunks, chunk_ids, all_embs, start_pos, bind_i>>
    /\ UNCHANGED <<submits_left, kills_left, cvars>>

(***************************************************************************)
(* PaperDB.get_chunks_for_paper(paper_id), called by the Stored papers tab *)
(* (app.py line 188).                                                      *)
(***************************************************************************)
\* the row ids of S by ascending chunk_order (rows of equal chunk_order by
\* row id)
RECURSIVE OrderByChunkOrder(_)
OrderByChunkOrder(S) ==
    IF S = {} THEN <<>>
    ELSE LET first == CHOOSE r \in S : \A q \in S :
                          \/ ChunksView[r].chunk_order < ChunksView[q].chunk_order
                          \/ /\ ChunksView[r].chunk_order = ChunksView[q].chunk_order
                             /\ r <= q
         IN  <<first>> \o OrderByChunkOrder(S \ {first})

\* db_helpers.py lines 109-114: SELECT id, chunk_order, chunk_text FROM
\* chunks WHERE paper_id=? ORDER BY chunk_order ASC
get_chunks_for_paper(pid) ==
    LET ids == OrderByChunkOrder({r \in 1..Len(ChunksView) : ChunksView[r].paper_id = pid})
    IN  [k \in 1..Len(ids) |-> [id |-> ids[k],
                                 chunk_text |-> ChunksView[ids[k]].chunk_text,
                                 chunk_order |-> ChunksView[ids[k]].chunk_order]]

(***************************************************************************)
(* Specifications.                                                         *)
(***************************************************************************)
Next ==
    \/ Start
    \/ Kill
    \/ \E s \in Sessions, t \in TextIds : Submit(s, t)
    \/ \E s \in Sessions : InsertPaperSelect(s)
    \/ \E s \in Sessions : InsertPaperFetch(s)
    \/ \E s \in Sessions : InsertPaperInsert(s)
    \/ \E s \in Sessions : InsertPaperCommit(s)
    \/ \E s \in Sessions : Chunking(s)
    \/ \E s \in Sessions : InsertChunk(s)
    \/ \E s \in Sessions : InsertChunksCommit(s)
    \/ \E s \in Sessions : EmbedBatch(s)
    \/ \E s \in Sessions : EmbedFail(s)
    \/ \E s \in Sessions : Vstack(s)
    \/ \E s \in Sessions : ReadNtotal(s)
    \/ \E s \in Sessions : IndexAdd(s)
    \/ \E s \in Sessions : MapInsert(s)
    \/ \E s \in Sessions : MapCommit(s)
    \/ \E s \in Sessions : WriteIndex(s)
    \/ \E s \in Sessions : WriteIndexFail(s)
    \/ \E s \in Sessions : SaveSummary(s)
    \/ \E s \in Sessions : Rerun(s)
    \/ \E s \in Sessions, k \in TopKs : Search(s, k)

\* one session, with process kills and restarts
Spec == Init /\ [][Next]_vars

\* two browser sessions sharing the cached PaperDB
InitConc ==
    /\ InitChunkOff
    /\ InitDurable
    /\ InitProcess
    /\ InitLocals
    /\ pc = [s \in Sessions |-> "idle"]
    /\ submits_left = MaxSubmits
    /\ kills_left = MaxKills
    /\ searches_left = MaxSearches

SpecConc == InitConc /\ [][Next]_vars

\* the texts uploaded in SpecBatch: a one-chunk text and the long text
BatchTexts == {2, LongText}

\* one session that ingests BatchTexts; no kill and no search is followed
InitBatch ==
    /\ InitChunkOff
    /\ InitDurable
    /\ InitProcess
    /\ InitLocals
    /\ pc = [s \in Sessions |-> IF s = 1 THEN "idle" ELSE "off"]
    /\ submits_left = MaxSubmits
    /\ kills_left = 0
    /\ searches_left = 0

NextBatch ==
    \/ Start
    \/ \E s \in Sessions, t \in BatchTexts : Submit(s, t)
    \/ \E s \in Sessions : InsertPaperSelect(s)
    \/ \E s \in Sessions : InsertPaperFetch(s)
    \/ \E s \in Sessions : InsertPaperInsert(s)
    \/ \E s \in Sessions : InsertPaperCommit(s)
    \/ \E s \in Sessions : Chunking(s)
    \/ \E s \in Sessions : InsertChunk(s)
    \/ \E s \in Sessions : InsertChunksCommit(s)
    \/ \E s \in Sessions : EmbedBatch(s)
    \/ \E s \in Sessions : EmbedFail(s)
    \/ \E s \in Sessions : Vstack(s)
    \/ \E s \in Sessions : ReadNtotal(s)
    \/ \E s \in Sessions : IndexAdd(s)
    \/ \E s \in Sessions : MapInsert(s)
    \/ \E s \in Sessions : MapCommit(s)
    \/ \E s \in Sessions : WriteIndex(s)
    \/ \E s \in Sessions : WriteIndexFail(s)
    \/ \E s \in Sessions : SaveSummary(s)
    \/ \E s \in Sessions : Rerun(s)

\* one session ingesting a text of more than one batch
SpecBatch == InitBatch /\ [][NextBatch]_vars

(***************************************************************************)
(* Claims about the pipeline, checked under Spec (one session) and         *)
(* SpecConc (two sessions).                                                *)
(***************************************************************************)
\* session s is inside VectorStore.add_embeddings
InAddEmbeddings(s) ==
    pc[s] \in {"embed", "read_ntotal", "index_add", "map_insert", "write_index"}

\* no add_embeddings call is in progress
Quiescent == \A s \in Sessions : ~InAddEmbeddings(s)

\* the number of Identity Map entries the VectorStore connection sees
MapCount == Cardinality(DOMAIN MapView)

\* the content hash of the document that chunk id cid belongs to
ParentHash(cid) ==
    LET pid == ChunksView[cid].paper_id
    IN  IF pid \in 1..Len(PapersView) THEN PapersView[pid].file_hash ELSE NoRow

\* position p (0-based) resolves to a chunk of the document whose text
\* produced the vector stored at p
Aligned(p) ==
    /\ p \in DOMAIN MapView
    /\ MapView[p] \in 1..Len(ChunksView)
    /\ ParentHash(MapView[p]) = compute_hash(index[p + 1].emb.text)

\* C1 - position alignment: whenever the process is up and no add_embeddings
\* call is in progress, every position p with 0 <= p < index size resolves
\* through faiss_mapping to a chunk whose parent document is the document
\* that produced the vector stored at p.
C1_PositionAlignment ==
    (proc # "down" /\ Quiescent) => \A p \in 0..(Len(index) - 1) : Aligned(p)

\* the counts that a repeated ingestion must leave alone
StoreCounts ==
    <<Len(PapersView), Len(ChunksView), Len(index), MapCount, Len(papers),
      Len(chunks_tbl), Cardinality(DOMAIN faiss_mapping), index_file>>

\* the committed document with the content hash of text t, or NoId
StoredPaper(t) ==
    IF \E i \in 1..Len(papers) : papers[i].file_hash = [sha256 |-> t]
    THEN CHOOSE i \in 1..Len(papers) : papers[i].file_hash = [sha256 |-> t]
    ELSE NoId

\* C2 - dedupe idempotence: every step of an ingestion request whose full
\* text already has a committed document leads only towards the
\* already-existed return, which carries the id of that document; no such
\* step runs a chunk, embed, append or bind step or changes the number of
\* documents, of chunk records, of index vectors or of map entries.
C2_DedupeIdempotence ==
    [][\A s \in Sessions :
          (/\ pc[s] \in {"ip_select", "ip_fetch"}
           /\ StoredPaper(full_text[s]) # NoId
           /\ proc' # "down")
          => /\ pc'[s] = (IF pc[s] = "ip_select" THEN "ip_fetch" ELSE "skipped")
             /\ StoreCounts' = StoreCounts
             /\ sess_chunks'[s] = <<>> /\ chunk_ids'[s] = <<>> /\ all_embs'[s] = <<>>
             /\ pc'[s] = "skipped" => paper_id'[s] = StoredPaper(full_text[s])]_vars

\* C2 witness: a text whose first ingestion completed (its summary is
\* stored, its vectors are indexed) was submitted again and the request
\* ended in the already-existed branch
C2_Witness ==
    \E s \in Sessions :
        /\ pc[s] = "skipped"
        /\ paper_id[s] = StoredPaper(full_text[s])
        /\ papers[paper_id[s]].summary # NoRow
        /\ Len(index) > 0
        /\ Len(index) = MapCount

\* C3 - index/map synchrony: whenever the process is up and no
\* add_embeddings call is in progress, the positions that have an Identity
\* Map entry are exactly 0 .. index size - 1.
C3_IndexMapSynchrony ==
    (proc # "down" /\ Quiescent) => DOMAIN MapView = 0..(Len(index) - 1)

\* C4 - load-time reconciliation: a process that has started with an index
\* snapshot whose size differs from the number of Identity Map entries
\* serves no ingestion and no search while the two still differ.
C4_LoadReconciliation ==
    [][(proc = "started" /\ Len(index) # MapCount) => proc' # "serving"]_vars

\* session s has read the index size and not yet committed its bindings
InAppendBind(s) == pc[s] \in {"index_add", "map_insert"}

\* the positions session s was assigned
Positions(s) == start_pos[s]..(start_pos[s] + Len(chunk_ids[s]) - 1)

\* C5 - serialized append-and-bind: the append-and-bind steps of two
\* sessions do not interleave, so two sessions that have both read the
\* index size and not yet committed their bindings were assigned disjoint
\* position ranges.
C5_SerializedAppendBind ==
    \A s1, s2 \in Sessions :
        (s1 # s2 /\ InAppendBind(s1) /\ InAppendBind(s2)) =>
            Positions(s1) \cap Positions(s2) = {}

\* every vector of the index is bound to an existing chunk
AllBound ==
    \A p \in 0..(Len(index) - 1) :
        p \in DOMAIN MapView /\ MapView[p] \in 1..Len(ChunksView)

\* C10 - search result count: on an index of n vectors that are all bound
\* to existing chunks, a semantic_search call with top_k has returned
\* exactly min(n, top_k) results, whatever the ranking; on an empty index
\* semantic_search returns the empty list for every top_k.
C10_SearchResultCount ==
    (proc # "down" /\ AllBound) =>
        /\ Len(index) = 0 =>
               \A k \in TopKs : \A I \in FaissSearch(k) : semantic_search(I) = <<>>
        /\ \A s \in Sessions :
               (pc[s] = "searched" /\ Len(index) > 0) =>
                   Len(results[s].hits) = Min(Len(index), results[s].top_k)

\* C10 witness: a search with top_k = 5 on an index of 2 bound vectors has
\* returned 2 results
C10_Witness ==
    \E s \in Sessions :
        /\ pc[s] = "searched"
        /\ AllBound
        /\ Len(index) = 2
        /\ results[s].top_k = DefaultTopK
        /\ Len(results[s].hits) = 2

\* position I[j] of a ranking resolves to an existing chunk record
Resolves(I, j) ==
    /\ I[j] >= 0
    /\ I[j] \in DOMAIN MapView
    /\ MapView[I[j]] \in 1..Len(ChunksView)

\* C11 - absent binding is non-fatal: a semantic_search call on a ranking I
\* has returned, and its results are exactly the ranks of I whose position
\* has an Identity Map entry and a chunk record, each with the chunk bound to
\* that position, in the order of I; a position with no entry is dropped.
C11_AbsentBindingDropped ==
    \A s \in Sessions :
        (pc[s] = "searched" /\ Len(index) > 0) =>
            LET I == results[s].I
                hits == results[s].hits
            IN  /\ \A j \in 1..Len(I) :
                       Resolves(I, j) <=> \E h \in 1..Len(hits) : hits[h].score = j
                /\ \A h \in 1..Len(hits) :
                       /\ hits[h].score \in 1..Len(I)
                       /\ hits[h].chunk_id = MapView[I[hits[h].score]]
                       /\ hits[h].chunk_text = ChunksView[hits[h].chunk_id].chunk_text
                /\ \A h1, h2 \in 1..Len(hits) :
                       h1 < h2 => hits[h1].score < hits[h2].score

\* C11 witness: the best-ranked position of a search has no Identity Map
\* entry, and the search returned the chunk of a position ranked after it
C11_Witness ==
    \E s \in Sessions :
        /\ pc[s] = "searched"
        /\ Len(results[s].I) >= 2
        /\ results[s].I[1] >= 0
        /\ results[s].I[1] \notin DOMAIN MapView
        /\ Len(results[s].hits) >= 1
        /\ results[s].hits[1].score = 2

\* C12 - batch-atomic append: while add_embeddings is encoding its batches,
\* and when the encoding of any batch fails (also after earlier batches of
\* the call were encoded), the in-memory index, the snapshot file and the
\* Identity Map stay exactly as they were before the call.
C12_BatchAtomicAppend ==
    [][\A s \in Sessions :
          (pc[s] = "embed" /\ proc' # "down") =>
              /\ index' = index
              /\ index_file' = index_file
              /\ MapView' = MapView
              /\ faiss_mapping' = faiss_mapping]_vars

\* C12 witness: on an index that already holds bound vectors, a call for
\* more than one batch of chunks failed after its first batch was encoded,
\* and index, snapshot and map still hold the earlier vectors only
C12_Witness ==
    \E s \in Sessions :
        /\ pc[s] = "failed"
        /\ Len(sess_chunks[s]) > BatchSize
        /\ Len(all_embs[s]) = 1
        /\ Len(index) = 1
        /\ index_file = <<index>>
        /\ DOMAIN MapView = {0}

\* the chunks (by their place in the chunk list of session s) whose vector
\* is in the index
ChunksIndexed(s) ==
    {i \in 1..Len(sess_chunks[s]) :
        \E p \in 1..Len(index) : index[p] = Encode(sess_chunks[s][i])}

\* the chunks (by their place in the chunk list of session s) whose id has
\* an Identity Map entry
ChunksBound(s) ==
    {i \in 1..Len(chunk_ids[s]) :
        \E p \in DOMAIN MapView : MapView[p] = chunk_ids[s][i]}

\* C13 - failure after chunks are stored: when an ingestion has failed
\* after insert_chunks committed, the document record and all its chunk
\* records are still stored, and the index holds a vector for exactly those
\* chunks of the document that have an Identity Map entry.
C13_FailureAfterChunksStored ==
    \A s \in Sessions :
        (/\ pc[s] = "failed"
         /\ paper_id[s] # NoId
         /\ Len(chunk_ids[s]) = Len(sess_chunks[s]))
        => /\ paper_id[s] \in 1..Len(papers)
           /\ \A i \in 1..Len(chunk_ids[s]) :
                  /\ chunk_ids[s][i] \in 1..Len(chunks_tbl)
                  /\ chunks_tbl[chunk_ids[s][i]].paper_id = paper_id[s]
           /\ ChunksIndexed(s) = ChunksBound(s)

\* C14 - snapshot mirroring: when add_embeddings has returned successfully
\* the snapshot file holds exactly the vectors of the in-memory index, in
\* the same order; a process start makes the in-memory index equal to the
\* last snapshot, and with no snapshot file it creates an empty index (and
\* its file) without an error.
C14_SnapshotMirroring ==
    [][/\ \A s \in Sessions :
             (pc[s] = "write_index" /\ pc'[s] = "summarize") =>
                 index_file' = <<index'>>
       /\ (proc = "down" /\ proc' # "down") =>
             /\ proc' = "started"
             /\ index_file # NoFile => (index' = index_file[1] /\ index_file' = index_file)
             /\ index_file = NoFile => (index' = <<>> /\ index_file' = <<index'>>)]_vars

\* C14 witness: a process has started from a snapshot of two vectors
\* written by an earlier add_embeddings call and holds those two vectors
C14_Witness ==
    /\ proc = "started"
    /\ Len(index) = 2
    /\ index_file = <<index>>
    /\ index[1] # index[2]

\* C15 - positions are never reused or reordered: a position that was
\* assigned to an appended vector, as its committed Identity Map entry
\* records, is never assigned to a different vector afterwards, across
\* ingestions, failures and restarts: whenever the index holds a vector at
\* a bound position, it is the embedding of the chunk bound there.
C15_PositionsNeverReused ==
    \A p \in DOMAIN faiss_mapping :
        (p < Len(index) /\ faiss_mapping[p] \in 1..Len(chunks_tbl)) =>
            index[p + 1] = Encode(chunks_tbl[faiss_mapping[p]].chunk_text)

\* C16 - duplicate bind is rejected: the step of a session whose next
\* INSERT INTO faiss_mapping is for a position that already has an entry
\* fails with an error and binds nothing, and no step changes the chunk id of an entry that exists, so
\* every position keeps the one entry it first got.
C16_DuplicateBindRejected ==
    [][/\ \A s \in Sessions :
             (/\ pc[s] = "map_insert"
              /\ bind_i[s] < Len(chunk_ids[s])
              /\ (start_pos[s] + bind_i[s]) \in DOMAIN MapView
              /\ (pc'[s] # pc[s] \/ bind_i'[s] # bind_i[s])
              /\ proc' # "down")
             => (pc'[s] = "failed" /\ MapView' = MapView)
       /\ \A p \in DOMAIN faiss_mapping :
             p \in DOMAIN faiss_mapping' /\ faiss_mapping'[p] = faiss_mapping[p]
       /\ \A p \in DOMAIN MapView :
             proc' # "down" => (p \in DOMAIN MapView' /\ MapView'[p] = MapView[p])]_vars

\* C16 witness: a bind of chunk 2 to position 0, which is bound to chunk 1,
\* was rejected and position 0 still resolves to chunk 1
C16_Witness ==
    \E s \in Sessions :
        /\ pc[s] = "failed"
        /\ lock = "vs"
        /\ bind_i[s] < Len(chunk_ids[s])
        /\ start_pos[s] + bind_i[s] = 0
        /\ chunk_ids[s][bind_i[s] + 1] = 2
        /\ MapView = (0 :> 1)

\* no two document rows carry the same content hash
UniqueHashes ==
    \A i, j \in 1..Len(PapersView) :
        PapersView[i].file_hash = PapersView[j].file_hash => i = j

\* C17 - content-hash uniqueness under concurrent ingestion: no two
\* documents share a content hash, and an insert_paper call that reaches
\* its INSERT when a document with its hash already exists (another call
\* for the same text got in between) does not end in an exception.
C17_ConcurrentDedupe ==
    [][/\ UniqueHashes'
       /\ \A s \in Sessions :
             (/\ pc[s] = "ip_insert"
              /\ HashTaken(compute_hash(full_text[s]))
              /\ lock # "vs")
             => pc'[s] # "failed"]_vars

\* session s is past insert_chunks
ChunksStored(s) ==
    pc[s] \in {"embed", "read_ntotal", "index_add", "map_insert", "write_index",
               "summarize", "done"}

\* C18 - chunk ordinals: in every state the chunk records of each document,
\* as get_chunks_for_paper returns them, carry the ordinals 0, 1, ..., n-1
\* in this order, were inserted in this order, and for a document whose
\* chunks a session has stored their texts are the session's chunk texts in
\* input order.
C18_ChunkOrdinals ==
    /\ \A pid \in 1..Len(PapersView) :
           LET rows == get_chunks_for_paper(pid)
           IN  \A k \in 1..Len(rows) :
                   /\ rows[k].chunk_order = k - 1
                   /\ k > 1 => rows[k - 1].id < rows[k].id
    /\ \A s \in Sessions :
           ChunksStored(s) =>
               LET rows == get_chunks_for_paper(paper_id[s])
               IN  [k \in 1..Len(rows) |-> rows[k].chunk_text] = sess_chunks[s]

\* C18 witness: the second stored document has two chunk records, which
\* get_chunks_for_paper returns with ordinals 0 and 1
C18_Witness ==
    /\ Len(chunks_tbl) = 3
    /\ Len(get_chunks_for_paper(2)) = 2
    /\ get_chunks_for_paper(2)[2].chunk_order = 1
    /\ \E s \in Sessions : ChunksStored(s) /\ paper_id[s] = 2

\* add_embeddings of session s has returned
IngestionBound(s) == pc[s] \in {"summarize", "done"}

\* C19 - single consistent order: for every ingestion whose add_embeddings
\* has returned, with n chunk texts and first assigned position start_pos,
\* for every i in 0..n-1 position start_pos + i is bound to the id returned
\* for the i-th chunk text, that id is the chunk record of this document
\* with ordinal i and the i-th text, and the vector at start_pos + i is the
\* embedding of the i-th text.
C19_SingleConsistentOrder ==
    \A s \in Sessions :
        IngestionBound(s) =>
            /\ Len(chunk_ids[s]) = Len(sess_chunks[s])
            /\ \A i \in 0..(Len(sess_chunks[s]) - 1) :
                   LET p == start_pos[s] + i
                       cid == chunk_ids[s][i + 1]
                   IN  /\ p \in DOMAIN MapView
                       /\ MapView[p] = cid
                       /\ cid \in 1..Len(ChunksView)
                       /\ ChunksView[cid] = [paper_id |-> paper_id[s],
                                             chunk_text |-> sess_chunks[s][i + 1],
                                             chunk_order |-> i]
                       /\ p < Len(index)
                       /\ index[p + 1] = Encode(sess_chunks[s][i + 1])

\* C19 witness: the ingestion of a two-chunk text has completed on an index
\* that already held one vector; its first position is 1
C19_Witness ==
    \E s \in Sessions :
        /\ pc[s] = "done"
        /\ start_pos[s] = 1
        /\ Len(sess_chunks[s]) = 2
        /\ Len(index) = 3

\* a session is past the dedupe check of an ingestion of a text with
\* content hash h: it is inserting the document or running a chunk, embed,
\* append, bind, snapshot or summary step
Writing(h) ==
    \E s \in Sessions :
        /\ pc[s] \in {"ip_insert", "ip_commit", "chunking", "insert_chunks", "embed",
                      "read_ntotal", "index_add", "map_insert", "write_index",
                      "summarize"}
        /\ compute_hash(full_text[s]) = h

\* what only an ingestion of its text writes for the committed document
\* pid: the summary, the chunk records and the positions bound to them
DocFootprint(pid) ==
    <<papers[pid].summary,
      {r \in 1..Len(chunks_tbl) : chunks_tbl[r].paper_id = pid},
      {p \in DOMAIN faiss_mapping :
          /\ faiss_mapping[p] \in 1..Len(chunks_tbl)
          /\ chunks_tbl[faiss_mapping[p]].paper_id = pid}>>

\* C20 - no repair by re-ingestion: once the document of a text is
\* committed and the ingestion that created it is over (completed, failed
\* or killed), no later request for that text gets past the dedupe check;
\* the document's summary, chunk records and bound positions stay as that
\* ingestion left them, and while no text is being ingested the tables, the
\* snapshot and the index are not written at all.
C20_NoRepairByReingestion ==
    [][\A pid \in 1..Len(papers) :
          ~Writing(papers[pid].file_hash) =>
              /\ ~Writing(papers[pid].file_hash)'
              /\ pid \in 1..Len(papers')
              /\ papers'[pid].file_hash = papers[pid].file_hash
              /\ DocFootprint(pid)' = DocFootprint(pid)
              /\ (\A s \in Sessions : ~Writing(compute_hash(full_text[s]))) =>
                     /\ <<papers, chunks_tbl, faiss_mapping, index_file>>'
                            = <<papers, chunks_tbl, faiss_mapping, index_file>>
                     /\ (proc # "down" /\ proc' # "down") => index' = index]_vars

\* C20 witness: a text whose first ingestion failed after its two chunk
\* records were committed and before any was bound is submitted again; the
\* request ends in the already-existed branch and the chunks are still
\* unbound and the summary still missing
C20_Witness ==
    \E s \in Sessions :
        /\ pc[s] = "skipped"
        /\ paper_id[s] = StoredPaper(full_text[s])
        /\ papers[paper_id[s]].summary = NoRow
        /\ Len(get_chunks_for_paper(paper_id[s])) = 2
        /\ DOMAIN MapView = {}
        /\ index = <<>>

\* the number of vectors in the snapshot file
SnapshotSize == IF index_file = NoFile THEN 0 ELSE Len(index_file[1])

\* the number of committed Identity Map entries
DurableMapCount == Cardinality(DOMAIN faiss_mapping)

\* the order of the steps of one add_embeddings call
StepOrder ==
    {<<"embed", "read_ntotal">>, <<"read_ntotal", "index_add">>,
     <<"index_add", "map_insert">>, <<"map_insert", "write_index">>,
     <<"write_index", "summarize">>}

\* C21 - commit-before-snapshot ordering: a call of add_embeddings moves
\* through embed all batches, append, insert the map entries, commit,
\* write the snapshot, in this order (or fails); the index is appended to
\* only when every batch is encoded, the map is committed only by the
\* commit step, and the snapshot is written only by the last step, when the
\* entries of all positions of the call are committed.  So every step, and
\* a kill at any point of the call, keeps the number of committed map
\* entries >= the snapshot size.
C21_CommitBeforeSnapshot ==
    [][/\ \A s \in Sessions :
             (InAddEmbeddings(s) /\ pc'[s] # pc[s] /\ proc' # "down") =>
                 (pc'[s] = "failed" \/ <<pc[s], pc'[s]>> \in StepOrder)
       /\ (index' # index /\ proc # "down" /\ proc' # "down") =>
             \E s \in Sessions :
                 /\ pc[s] = "index_add" /\ pc'[s] = "map_insert"
                 /\ Len(all_embs[s]) = Len(sess_chunks[s])
       /\ faiss_mapping' # faiss_mapping =>
             \E s \in Sessions : pc[s] = "map_insert" /\ pc'[s] = "write_index"
       /\ (index_file' # index_file /\ proc # "down") =>
             \E s \in Sessions :
                 /\ pc[s] = "write_index" /\ pc'[s] = "summarize"
                 /\ Positions(s) \subseteq DOMAIN faiss_mapping
       /\ DurableMapCount >= SnapshotSize => DurableMapCount' >= SnapshotSize']_vars

\* C21 witness: the process was killed inside an add_embeddings call that
\* began with an empty map and an empty snapshot, after the commit of its
\* two map entries and before the snapshot write
C21_Witness ==
    /\ proc = "down"
    /\ kills_left < MaxKills
    /\ DurableMapCount = 2
    /\ SnapshotSize = 0
    /\ index_file # NoFile

\* session s is past the chunker, which returned no chunk for its text
ZeroChunks(s) ==
    /\ pc[s] \in {"insert_chunks", "embed"}
    /\ chunk_text(full_text[s], PipelineMaxWords, PipelineOverlap) = <<>>

\* C22 - zero-chunk ingestion: an ingestion of a new text for which
\* chunk_text returns no chunk has its document record stored, stores no
\* chunk record, and goes from insert_chunks into add_embeddings and from
\* there only to the failure, leaving the index, the Identity Map and the
\* snapshot as they were; no session is ever past the stacking step, in
\* the summary step or done with an empty chunk list.
C22_ZeroChunkIngestion ==
    [][/\ \A s \in Sessions :
             (ZeroChunks(s) /\ pc'[s] # pc[s] /\ proc' # "down") =>
                 /\ paper_id[s] \in 1..Len(papers)
                 /\ papers[paper_id[s]].file_hash = compute_hash(full_text[s])
                 /\ \A r \in 1..Len(ChunksView') : ChunksView'[r].paper_id # paper_id[s]
                 /\ pc'[s] = (IF pc[s] = "insert_chunks" THEN "embed" ELSE "failed")
                 /\ <<index, index_file, faiss_mapping, vs_pending>>'
                        = <<index, index_file, faiss_mapping, vs_pending>>
       /\ \A s \in Sessions :
             pc'[s] \in {"read_ntotal", "index_add", "map_insert", "write_index",
                         "summarize", "done"} => sess_chunks'[s] # <<>>]_vars

\* C22 witness: on an index of one bound, persisted vector the ingestion of
\* the empty text has stored its document, no chunk, and failed inside
\* add_embeddings
C22_Witness ==
    \E s \in Sessions :
        /\ pc[s] = "failed"
        /\ full_text[s] = 1
        /\ paper_id[s] = 2
        /\ papers[2].file_hash = compute_hash(1)
        /\ sess_chunks[s] = <<>>
        /\ Len(chunks_tbl) = 1
        /\ Len(index) = 1
        /\ index_file = <<index>>
        /\ DOMAIN MapView = {0}

====
